---- MODULE Spec2Model ----
(***************************************************************************)
(* Model of Code/filearrange.py: the extension table CATEGORIES, the       *)
(* classifier get_category and the driver organize_files, run on a         *)
(* directory tree of depth two (the target folder and its category         *)
(* folders).  File names, extensions and printed counters are strings, and *)
(* suffix / stem / lower / str are computed on them character by character.*)
(***************************************************************************)
EXTENDS Integers, Sequences, FiniteSets, TLC

VARIABLES
    folderName,     \* folder.name of the resolved target path
    folderKind,     \* "dir", "file" or "missing": what the target path is
    top,            \* the target's children: name -> [kind, id]
    inner,          \* category name -> (name -> id): content of folder/category
    call,           \* "first", "second", "end": which call of organize_files is next
    pc,             \* position inside organize_files
    dry_run,        \* the dry_run argument of the current call
    moved_files,
    skipped_files,
    items,          \* children listed by folder.iterdir() and not yet visited
    item,           \* the loop variable (a child's name)
    category,
    target_path,    \* target_path.name; its directory is folder / category
    counter,
    out,            \* lines printed by the current call
    handled,        \* history: name -> number of times the loop body ran for it
    start,          \* history: the file system when the current call began
    prev,           \* history: what the previous call did
    file_extension, \* the argument of a direct call of get_category
    returned        \* what that call returned, "" before it returns

fs   == <<folderName, folderKind, top, inner>>
loc  == <<item, category, target_path, counter>>
query == <<file_extension, returned>>
vars == <<folderName, folderKind, top, inner, call, pc, dry_run, moved_files,
          skipped_files, items, item, category, target_path, counter, out,
          handled, start, prev, file_extension, returned>>

---------------------------------------------------------------------------
(* Strings *)

Char(s, i) == SubSeq(s, i, i)

UPPER == "ABCDEFGHIJKLMNOPQRSTUVWXYZ"
LOWER == "abcdefghijklmnopqrstuvwxyz"
DIGITS == "0123456789"

LowerChar(c) ==
    IF \E i \in 1..Len(UPPER) : Char(UPPER, i) = c
    THEN Char(LOWER, CHOOSE i \in 1..Len(UPPER) : Char(UPPER, i) = c)
    ELSE c

RECURSIVE LowerFrom(_, _)
LowerFrom(s, i) ==
    IF i > Len(s) THEN "" ELSE LowerChar(Char(s, i)) \o LowerFrom(s, i + 1)

\* a lower() that leaves capitals as they are
lower_keeps_case(s) == s

\* str.lower()
lower(s) == LowerFrom(s, 1)

\* str(counter): decimal digits, most significant first
RECURSIVE str(_)
str(n) ==
    IF n < Len(DIGITS) THEN Char(DIGITS, n + 1)
    ELSE str(n \div Len(DIGITS)) \o Char(DIGITS, (n % Len(DIGITS)) + 1)

\* name.rfind('.') as a 1-based position, 0 when there is no dot
RFindDot(name) ==
    LET dots == {i \in 1..Len(name) : Char(name, i) = "."}
    IN  IF dots = {} THEN 0 ELSE CHOOSE i \in dots : \A j \in dots : j <= i

\* PurePath.suffix: the part from the last dot on, unless that dot is the
\* first or the last character of the name
suffix(name) ==
    LET i == RFindDot(name)
    IN  IF 1 < i /\ i < Len(name) THEN SubSeq(name, i, Len(name)) ELSE ""

\* PurePath.stem: the name without its suffix
stem(name) ==
    LET i == RFindDot(name)
    IN  IF 1 < i /\ i < Len(name) THEN SubSeq(name, 1, i - 1) ELSE name

---------------------------------------------------------------------------
(* The extension table and the classifier *)

CATEGORIES == <<
    [name |-> "Images",    extensions |-> {".jpg", ".jpeg", ".png", ".gif", ".bmp", ".svg", ".webp"}],
    [name |-> "Documents", extensions |-> {".pdf", ".doc", ".docx", ".xls", ".xlsx", ".txt", ".md"}],
    [name |-> "Audio",     extensions |-> {".mp3", ".wav", ".flac", ".aac", ".m4a"}],
    [name |-> "Video",     extensions |-> {".mp4", ".mkv", ".mov", ".avi", ".flv"}],
    [name |-> "Archives",  extensions |-> {".zip", ".tar", ".gz", ".rar", ".7z"}],
    [name |-> "Code",      extensions |-> {".py", ".js", ".html", ".css", ".json", ".sh"}],
    [name |-> "Others",    extensions |-> {}] >>

\* the keys of CATEGORIES
CategoryNames == {CATEGORIES[i].name : i \in 1..Len(CATEGORIES)}

RECURSIVE CategoryFrom(_, _)
CategoryFrom(i, ext) ==
    IF i > Len(CATEGORIES) THEN "Others"
    ELSE IF lower(ext) \in CATEGORIES[i].extensions
         THEN CATEGORIES[i].name
         ELSE CategoryFrom(i + 1, ext)

get_category(ext) == CategoryFrom(1, ext)

---------------------------------------------------------------------------
(* The file system and the inputs *)

\* largest number of children the target folder starts with, its
\* category folders not counted
MaxChildren == 2

Empty == [n \in {} |-> <<>>]

\* the names folder.name is drawn from: an ordinary one and a category's
FolderNames == {"work", "Documents"}

\* the children the target folder may start with, and what each is:
\* a regular file, a directory, or neither (a FIFO, a socket)
ChildKinds ==
    "a.txt" :> "file" @@ "a(1).txt" :> "file" @@ "p.JPG" :> "file" @@
    "Images" :> "file" @@ "sub" :> "dir" @@ "pipe" :> "other"

\* what folder/Documents may start as: absent, or a directory holding
\* these names
PreDocuments ==
    { [present |-> FALSE, names |-> {}],
      [present |-> TRUE,  names |-> {}],
      [present |-> TRUE,  names |-> {"a.txt"}],
      [present |-> TRUE,  names |-> {"a.txt", "a(1).txt"}] }

\* the identity of a file: where it was in the initial state
Origin(dir, name) == <<dir, name>>

Entry(kind, name) == [kind |-> kind, id |-> Origin("", name)]

\* Path.exists() of folder / name
ExistsTop(name) == name \in DOMAIN top

\* Path.is_dir() of folder / name
IsDir(name) == name \in DOMAIN top /\ top[name].kind = "dir"

\* Path.is_file() of folder / name
IsFile(name) == name \in DOMAIN top /\ top[name].kind = "file"

\* an exists() that never sees the destination
ExistsInNever(cat, name) == FALSE

\* Path.exists() of folder / cat / name: false when folder / cat is
\* missing or is not a directory
ExistsIn(cat, name) == IsDir(cat) /\ name \in DOMAIN inner[cat]

NoCall == [called |-> FALSE, dry_run |-> FALSE, failed |-> FALSE, previews |-> << >>]

Init ==
    /\ folderName \in FolderNames
    /\ folderKind \in {"dir", "file", "missing"}
    /\ \E S \in SUBSET (DOMAIN ChildKinds), docs \in PreDocuments :
          /\ Cardinality(S) <= MaxChildren
          /\ folderKind # "dir" =>
                S = {} /\ ~docs.present /\ folderName = "work"
          /\ top = [n \in S |-> Entry(ChildKinds[n], n)] @@
                   (IF docs.present
                    THEN "Documents" :> Entry("dir", "Documents")
                    ELSE Empty)
          /\ inner = [c \in CategoryNames |->
                        IF c = "Documents"
                        THEN [n \in docs.names |-> Origin(c, n)]
                        ELSE Empty]
    /\ call = "first"
    /\ pc = "idle"
    /\ dry_run = FALSE
    /\ moved_files = 0
    /\ skipped_files = 0
    /\ items = {}
    /\ item = ""
    /\ category = ""
    /\ target_path = ""
    /\ counter = 1
    /\ out = << >>
    /\ handled = Empty
    /\ start = [top |-> top, inner |-> inner]
    /\ prev = NoCall
    /\ file_extension = ""
    /\ returned = ""

---------------------------------------------------------------------------
(* organize_files *)

Line(kind, name, cat, target, m, s) ==
    [kind |-> kind, name |-> name, category |-> cat, target |-> target,
     moved |-> m, skipped |-> s]

\* the call that ended, as the next call remembers it: whether it was a
\* dry run, whether a move failed in it, and the lines a dry run printed
Ended ==
    [called |-> pc = "done",
     dry_run |-> dry_run,
     failed |-> \E i \in 1..Len(out) : out[i].kind = "error",
     previews |-> IF dry_run THEN out ELSE << >>]

\* organize_files is called with dry_run = d: a first call, dry or live,
\* and then a live call on the folder as the first call left it
Enter(d) ==
    /\ pc \in {"idle", "done"}
    /\ call # "end"
    /\ call = "second" => d = FALSE
    /\ call' = IF call = "first" THEN "second" ELSE "end"
    /\ dry_run' = d
    /\ prev' = Ended
    /\ start' = [top |-> top, inner |-> inner]

\* lines 34-36: the target is not a directory
Invalid(d) ==
    /\ Enter(d)
    /\ folderKind # "dir"
    /\ out' = << Line("invalid", "", "", "", 0, 0) >>
    /\ pc' = "done"
    /\ items' = {}
    /\ handled' = Empty
    /\ moved_files' = 0
    /\ skipped_files' = 0
    /\ UNCHANGED <<query, fs, loc>>

\* the category folders created in a dry run too
EnsuredAnyway(d) ==
    top @@ [c \in CategoryNames \ DOMAIN top |-> Entry("dir", c)]

\* lines 39-41: the children after the category folders are ensured
Ensured(d) ==
    IF d THEN top
    ELSE top @@ [c \in {k \in CategoryNames : ~ExistsTop(k)} |-> Entry("dir", c)]

\* lines 34-46: validation, the category folders, the counters and the
\* listing of the folder
Setup(d) ==
    /\ Enter(d)
    /\ folderKind = "dir"
    /\ top' = Ensured(d)
    /\ moved_files' = 0
    /\ skipped_files' = 0
    /\ items' = DOMAIN top'
    /\ handled' = [n \in DOMAIN top' |-> 0]
    /\ out' = << >>
    /\ pc' = "loop"
    /\ UNCHANGED <<query, folderName, folderKind, inner, loc>>

\* the place of a directory in the listing: iterdir's order is arbitrary;
\* visiting a directory only adds one to skipped_files, so the listing is
\* taken up to the order of its directories among themselves
DirRank ==
    [name \in CategoryNames |->
        CHOOSE i \in 1..Len(CATEGORIES) : CATEGORIES[i].name = name]

RankOf(name) == IF name \in CategoryNames THEN DirRank[name] ELSE 0

\* the children iterdir may yield next
NextItems ==
    LET dirs == {n \in items : IsDir(n)}
        low  == {n \in dirs : \A m \in dirs : RankOf(n) <= RankOf(m)}
    IN  (items \ dirs) \cup low

Visit(n) ==
    /\ pc = "loop"
    /\ item' = n
    /\ items' = items \ {n}
    /\ handled' = [handled EXCEPT ![n] = @ + 1]

\* lines 48-50
Skip(n) ==
    /\ Visit(n)
    /\ IsDir(n) \/ folderName \in CategoryNames
    /\ skipped_files' = skipped_files + 1
    /\ UNCHANGED <<query, fs, call, pc, dry_run, moved_files, category, target_path,
                   counter, out, start, prev>>

\* line 52, is_file() false: the loop body does nothing
Ignore(n) ==
    /\ Visit(n)
    /\ ~(IsDir(n) \/ folderName \in CategoryNames)
    /\ ~IsFile(n)
    /\ UNCHANGED <<query, fs, call, pc, dry_run, moved_files, skipped_files, category,
                   target_path, counter, out, start, prev>>

\* a counter that starts at 0
ClassifyFromZero(n) ==
    /\ Visit(n)
    /\ ~(IsDir(n) \/ folderName \in CategoryNames)
    /\ IsFile(n)
    /\ category' = get_category(suffix(n))
    /\ target_path' = n
    /\ counter' = 0
    /\ pc' = "resolve"
    /\ UNCHANGED <<query, fs, call, dry_run, moved_files, skipped_files, out,
                   start, prev>>

\* lines 52-58
Classify(n) ==
    /\ Visit(n)
    /\ ~(IsDir(n) \/ folderName \in CategoryNames)
    /\ IsFile(n)
    /\ category' = get_category(suffix(n))
    /\ target_path' = n
    /\ counter' = 1
    /\ pc' = "resolve"
    /\ UNCHANGED <<query, fs, call, dry_run, moved_files, skipped_files, out, start,
                   prev>>

\* line 60
new_name == stem(item) \o "(" \o str(counter) \o ")" \o suffix(item)

\* a turn of the loop that forgets counter += 1
CollideKeepsCounter ==
    /\ pc = "resolve"
    /\ ExistsIn(category, target_path)
    /\ target_path' = new_name
    /\ UNCHANGED <<query, fs, call, pc, dry_run, moved_files, skipped_files,
                   items, item, category, counter, out, handled, start, prev>>

\* lines 59-62: one turn of the while loop
Collide ==
    /\ pc = "resolve"
    /\ ExistsIn(category, target_path)
    /\ target_path' = new_name
    /\ counter' = counter + 1
    /\ UNCHANGED <<query, fs, call, pc, dry_run, moved_files, skipped_files, items,
                   item, category, out, handled, start, prev>>

\* lines 64-65
DryReport ==
    /\ pc = "resolve"
    /\ ~ExistsIn(category, target_path)
    /\ dry_run
    /\ out' = Append(out, Line("preview", item, category, target_path, 0, 0))
    /\ pc' = "loop"
    /\ UNCHANGED <<query, fs, call, dry_run, moved_files, skipped_files, items, loc,
                   handled, start, prev>>

\* a move that leaves the file where it was
WithoutNothing(name) == top

\* the children of folder once item has left it
Without(name) == [n \in DOMAIN top \ {name} |-> top[n]]

\* folder / category once the file item is at target_path in it
Placed == [inner EXCEPT ![category] = (target_path :> top[item].id) @@ @]

\* a successful move that is not counted
MoveOkUncounted ==
    /\ pc = "resolve"
    /\ ~ExistsIn(category, target_path)
    /\ ~dry_run
    /\ IsDir(category)
    /\ top' = Without(item)
    /\ inner' = Placed
    /\ out' = Append(out, Line("moved", item, category, target_path, 0, 0))
    /\ pc' = "loop"
    /\ UNCHANGED <<query, folderName, folderKind, call, dry_run, moved_files,
                   skipped_files, items, loc, handled, start, prev>>

\* lines 68-70: shutil.move succeeds
MoveOk ==
    /\ pc = "resolve"
    /\ ~ExistsIn(category, target_path)
    /\ ~dry_run
    /\ IsDir(category)
    /\ top' = Without(item)
    /\ inner' = Placed
    /\ out' = Append(out, Line("moved", item, category, target_path, 0, 0))
    /\ moved_files' = moved_files + 1
    /\ pc' = "loop"
    /\ UNCHANGED <<query, folderName, folderKind, call, dry_run, skipped_files, items,
                   loc, handled, start, prev>>

\* a failed move that is not caught: the call ends without its summary
MoveFailAborts(copied) ==
    /\ pc = "resolve"
    /\ ~ExistsIn(category, target_path)
    /\ ~dry_run
    /\ copied => IsDir(category)
    /\ inner' = IF copied THEN Placed ELSE inner
    /\ out' = Append(out, Line("error", item, category, target_path, 0, 0))
    /\ pc' = "done"
    /\ UNCHANGED <<query, folderName, folderKind, top, call, dry_run,
                   moved_files, skipped_files, items, loc, handled, start, prev>>

\* lines 68, 71-73: shutil.move raises.  It always does when folder/category
\* is not a directory; otherwise the rename or the copy may fail, and a
\* failure after the copy leaves the copy behind (copied)
MoveFail(copied) ==
    /\ pc = "resolve"
    /\ ~ExistsIn(category, target_path)
    /\ ~dry_run
    /\ copied => IsDir(category)
    /\ inner' = IF copied THEN Placed ELSE inner
    /\ out' = Append(out, Line("error", item, category, target_path, 0, 0))
    /\ skipped_files' = skipped_files + 1
    /\ pc' = "loop"
    /\ UNCHANGED <<query, folderName, folderKind, top, call, dry_run, moved_files,
                   items, loc, handled, start, prev>>

\* lines 75-77
Summary ==
    /\ pc = "loop"
    /\ items = {}
    /\ out' = Append(out, Line("summary", "", "", "", moved_files, skipped_files))
              \o (IF dry_run THEN << Line("note", "", "", "", 0, 0) >> ELSE << >>)
    /\ pc' = "done"
    /\ UNCHANGED <<query, fs, call, dry_run, moved_files, skipped_files, items, loc,
                   handled, start, prev>>

Next ==
    \/ \E d \in BOOLEAN : Invalid(d)
    \/ \E d \in BOOLEAN : Setup(d)
    \/ \E n \in NextItems : Skip(n)
    \/ \E n \in NextItems : Ignore(n)
    \/ \E n \in NextItems : Classify(n)
    \/ Collide
    \/ DryReport
    \/ MoveOk
    \/ \E copied \in BOOLEAN : MoveFail(copied)
    \/ Summary

Spec == Init /\ [][Next]_vars

\* one call of organize_files, which keeps running once it has started:
\* the program is a single thread that never waits
NextOnce ==
    \/ \E d \in BOOLEAN : call = "first" /\ Invalid(d)
    \/ \E d \in BOOLEAN : call = "first" /\ Setup(d)
    \/ \E n \in NextItems : Skip(n)
    \/ \E n \in NextItems : Ignore(n)
    \/ \E n \in NextItems : Classify(n)
    \/ Collide
    \/ DryReport
    \/ MoveOk
    \/ \E copied \in BOOLEAN : MoveFail(copied)
    \/ Summary

SpecOnce == Init /\ [][NextOnce]_vars /\ WF_vars(NextOnce)

---------------------------------------------------------------------------
(* get_category called on its own *)

UpperChar(c) ==
    IF \E i \in 1..Len(LOWER) : Char(LOWER, i) = c
    THEN Char(UPPER, CHOOSE i \in 1..Len(LOWER) : Char(LOWER, i) = c)
    ELSE c

RECURSIVE UpperFrom(_, _)
UpperFrom(s, i) ==
    IF i > Len(s) THEN "" ELSE UpperChar(Char(s, i)) \o UpperFrom(s, i + 1)

\* the spellings of a listed extension e that are tried: e itself, e in
\* capitals, and e with only its first letter a capital
Spellings(e) ==
    {e, UpperFrom(e, 1),
     Char(e, 1) \o UpperChar(Char(e, 2)) \o SubSeq(e, 3, Len(e))}

Listed == UNION {CATEGORIES[i].extensions : i \in 1..Len(CATEGORIES)}

\* extensions of no list, the empty one among them
Unlisted == {"", ".", ".xyz", ".jp", "jpg", ".txtx", ".tar.gz", ".PY3"}

ExtInputs == UNION {Spellings(e) : e \in Listed} \cup Unlisted

InitClassify ==
    /\ file_extension \in ExtInputs
    /\ returned = ""
    /\ folderName = "work"
    /\ folderKind = "dir"
    /\ top = Empty
    /\ inner = [c \in CategoryNames |-> Empty]
    /\ call = "end"
    /\ pc = "idle"
    /\ dry_run = FALSE
    /\ moved_files = 0
    /\ skipped_files = 0
    /\ items = {}
    /\ item = ""
    /\ category = ""
    /\ target_path = ""
    /\ counter = 1
    /\ out = << >>
    /\ handled = Empty
    /\ start = [top |-> top, inner |-> inner]
    /\ prev = NoCall

\* lines 23-28: the call returns
GetCategory ==
    /\ returned = ""
    /\ returned' = get_category(file_extension)
    /\ UNCHANGED <<fs, call, pc, dry_run, moved_files, skipped_files, items,
                   loc, out, handled, start, prev, file_extension>>

NextClassify == GetCategory

SpecClassify == InitClassify /\ [][NextClassify]_vars

---------------------------------------------------------------------------
(* C7 *)

\* C7: get_category returns a value for every extension; for every
\* spelling (any letter case) of an extension listed under a category it
\* returns that category, whatever the category's place in the table, and
\* for an extension of no list, the empty one included, it returns
\* "Others"; no extension is listed under two categories.
C7_Classification ==
    /\ \A i, j \in 1..Len(CATEGORIES) :
          i # j => CATEGORIES[i].extensions \cap CATEGORIES[j].extensions = {}
    /\ returned = "" => ENABLED GetCategory
    /\ returned # "" =>
          /\ returned \in CategoryNames
          /\ \A i \in 1..Len(CATEGORIES) : \A e \in CATEGORIES[i].extensions :
                file_extension \in Spellings(e) => returned = CATEGORIES[i].name
          /\ file_extension \in Unlisted => returned = "Others"

C7_Witness == file_extension = ".JPG" /\ returned = "Images"

---------------------------------------------------------------------------
(* Vocabulary of the properties of organize_files *)

\* the call has printed its summary
Finished == pc = "done" /\ folderKind = "dir"

\* the call is past its validation
Running == pc \in {"loop", "resolve", "done"} /\ folderKind = "dir"

\* the printed lines of one kind
Printed(kind) == {i \in 1..Len(out) : out[i].kind = kind}

PrintedFor(kind, name) == {i \in Printed(kind) : out[i].name = name}

NoError == Printed("error") = {}

\* the summary line of a finished call
SummaryLine == out[CHOOSE i \in 1..Len(out) : out[i].kind = "summary"]

\* a regular file of the folder that the loop does not skip
Eligible(n) == start.top[n].kind = "file" /\ folderName \notin CategoryNames

\* stem(N)extension
Numbered(name, N) == stem(name) \o "(" \o str(N) \o ")" \o suffix(name)

---------------------------------------------------------------------------
(* C1 *)

\* C1: during and after a call with dry_run true the folder's children and
\* the content of the category folders are what they were when the call
\* began (no folder created, nothing moved, renamed or removed), and the
\* finished call has printed exactly one preview line for each eligible
\* regular file and none for any other child.
C1_DryRunInvariant ==
    (dry_run /\ pc # "idle") =>
        /\ top = start.top
        /\ inner = start.inner
        /\ \A i \in Printed("preview") : out[i].name \in DOMAIN start.top
        /\ Finished =>
              \A n \in DOMAIN start.top :
                 Cardinality(PrintedFor("preview", n)) = IF Eligible(n) THEN 1 ELSE 0

C1_Witness ==
    /\ Finished /\ dry_run
    /\ "Audio" \notin DOMAIN top
    /\ \E i \in Printed("preview") : out[i].target # out[i].name

---------------------------------------------------------------------------
(* C2 *)

\* the file that was folder/n when the call began is no longer there and
\* is in folder/<category of its extension>/ under n or stem(N)extension,
\* and in no other category folder
PlacedUnder(n) ==
    LET c  == get_category(suffix(n))
        id == start.top[n].id
    IN  /\ n \notin DOMAIN top
        /\ IsDir(c)
        /\ \E t \in DOMAIN inner[c] :
              /\ inner[c][t] = id
              /\ t = n \/ \E N \in 1..Cardinality(DOMAIN inner[c]) : t = Numbered(n, N)
        /\ \A c2 \in CategoryNames \ {c} : \A t \in DOMAIN inner[c2] : inner[c2][t] # id

\* C2: whatever the target folder's own name, after a live call every
\* regular file that was an immediate child and whose move did not fail
\* is under its category folder, under its name or stem(N)extension, and
\* no longer at its original path.
C2_Placement ==
    (Finished /\ ~dry_run) =>
        \A n \in DOMAIN start.top :
            (start.top[n].kind = "file" /\ PrintedFor("error", n) = {}) => PlacedUnder(n)

\* the same, for a target folder whose own name is not a category name
C2_PlacementOtherName ==
    folderName \notin CategoryNames => C2_Placement

---------------------------------------------------------------------------
(* C3 *)

AllFiles == \A n \in DOMAIN start.top : start.top[n].kind = "file"

\* C3 as stated: a live call on a folder whose children are n regular
\* files, every move succeeding, reports moved = n and skipped = 0
\* (stated here for n >= 1 and a target folder whose own name is no
\* category name, where no file is skipped for its parent's name).
C3_SummaryCounts ==
    ( /\ Finished /\ ~dry_run /\ AllFiles /\ NoError
      /\ DOMAIN start.top # {}
      /\ folderName \notin CategoryNames ) =>
        /\ SummaryLine.moved = Cardinality(DOMAIN start.top)
        /\ SummaryLine.skipped = 0

\* C3 amended: such a call reports moved = n and skipped = the number of
\* category folders it listed (the category names no file bears: seven,
\* unless a file is named like a category); when the target folder's own
\* name is a category name it reports moved = 0 and skipped = n + that
\* number.
C3_SummaryCountsListed ==
    (Finished /\ ~dry_run /\ AllFiles /\ NoError) =>
        LET n == Cardinality(DOMAIN start.top)
            k == Cardinality(CategoryNames \ DOMAIN start.top)
        IN  IF folderName \in CategoryNames
            THEN SummaryLine.moved = 0 /\ SummaryLine.skipped = n + k
            ELSE SummaryLine.moved = n /\ SummaryLine.skipped = k

C3_Witness ==
    /\ Finished /\ ~dry_run /\ AllFiles /\ NoError
    /\ folderName = "work"
    /\ Cardinality(DOMAIN start.top) = MaxChildren
    /\ SummaryLine.moved = MaxChildren
    /\ SummaryLine.skipped = Len(CATEGORIES)

---------------------------------------------------------------------------
(* C4 *)

\* C4: in a live call every file that was inside a category folder when
\* the call began is still at the same path, every file the call moved is
\* at the destination printed for it, that destination did not exist when
\* the call began, and no two moves of the call have the same destination.
C4_NoOverwrite ==
    (Running /\ ~dry_run) =>
        /\ \A c \in CategoryNames : \A n \in DOMAIN start.inner[c] :
              n \in DOMAIN inner[c] /\ inner[c][n] = start.inner[c][n]
        /\ \A i \in Printed("moved") :
              /\ out[i].target \notin DOMAIN start.inner[out[i].category]
              /\ out[i].target \in DOMAIN inner[out[i].category]
              /\ inner[out[i].category][out[i].target] = start.top[out[i].name].id
        /\ \A i, j \in Printed("moved") :
              i # j => <<out[i].category, out[i].target>> # <<out[j].category, out[j].target>>

C4_Witness ==
    /\ Finished /\ ~dry_run
    /\ \E i, j \in Printed("moved") :
          /\ i # j
          /\ out[i].category = out[j].category
          /\ out[i].target # out[i].name
          /\ out[i].name \in DOMAIN start.inner[out[i].category]

---------------------------------------------------------------------------
(* C5 *)

\* the second call is a live call that follows a live call without a
\* failed move, and has finished
Rerun ==
    /\ Finished /\ ~dry_run /\ call = "end"
    /\ prev.called /\ ~prev.dry_run /\ ~prev.failed

\* C5 as stated: the second call moves 0 files, counts every listed
\* child as skipped and leaves every file of the category folders at its
\* path.
C5_Rerun ==
    Rerun =>
        /\ SummaryLine.moved = 0
        /\ SummaryLine.skipped = Cardinality(DOMAIN handled)
        /\ inner = start.inner

\* C5 amended: the second call moves 0 files, counts as skipped every
\* listed child that is a directory or a regular file (a child that is
\* neither is counted only when the target folder's own name is a category
\* name), and leaves every file of the category folders at its path.
C5_RerunCountsFilesAndDirs ==
    Rerun =>
        /\ SummaryLine.moved = 0
        /\ SummaryLine.skipped =
              Cardinality({n \in DOMAIN handled :
                              IsDir(n) \/ IsFile(n) \/ folderName \in CategoryNames})
        /\ inner = start.inner

C5_Witness ==
    /\ Rerun
    /\ folderName = "work"
    /\ "pipe" \in DOMAIN top
    /\ \E c \in CategoryNames : \E t \in DOMAIN inner[c] : inner[c][t][1] = ""

---------------------------------------------------------------------------
(* C6 *)

\* the first of name, stem(1)extension, stem(2)extension, ... that does
\* not exist in folder/cat; one of the first |folder/cat| + 1 numbered
\* names is free
FirstFree(cat, name) ==
    IF ~ExistsIn(cat, name) THEN name
    ELSE LET free == {N \in 1..(Cardinality(DOMAIN inner[cat]) + 1) :
                         ~ExistsIn(cat, Numbered(name, N))}
         IN  Numbered(name, CHOOSE N \in free : \A M \in free : N <= M)

\* C6: when the while loop of lines 59-62 is left, target_path does not
\* exist and is folder/category/name if that does not exist, and otherwise
\* folder/category/stem(N)extension for the least N >= 1 for which that
\* does not exist.
C6_Resolution ==
    [][(pc = "resolve" /\ pc' = "loop") =>
          /\ ~ExistsIn(category, target_path)
          /\ target_path = FirstFree(category, item)]_vars

C6_Witness ==
    \E i \in Printed("moved") \cup Printed("preview") :
        /\ out[i].name = "a.txt"
        /\ out[i].target = "a(2).txt"
        /\ {"a.txt", "a(1).txt"} \subseteq DOMAIN start.inner["Documents"]

---------------------------------------------------------------------------
(* C8 *)

\* the step on which a failed move is reported
FailStep == Len(out') = Len(out) + 1 /\ out'[Len(out')].kind = "error"

\* C8: a failed move adds exactly 1 to skipped_files and nothing to
\* moved_files, leaves the file at its path and the children still to
\* visit as they were, and the loop goes on; a call in which a move failed
\* reaches its summary, having visited every listed child.
C8_MoveFailure ==
    /\ [][FailStep =>
             /\ skipped_files' = skipped_files + 1
             /\ moved_files' = moved_files
             /\ item \in DOMAIN top' /\ top'[item] = top[item]
             /\ items' = items
             /\ pc' = "loop"]_vars
    /\ []((Running /\ ~NoError) => <>Finished)
    /\ []((Finished /\ ~NoError) =>
             /\ \A n \in DOMAIN handled : handled[n] = 1
             /\ out[Len(out)].kind = "summary"
             /\ SummaryLine.skipped >= Cardinality(Printed("error")))

C8_Witness ==
    /\ Finished /\ ~dry_run
    /\ out[1].kind = "error"
    /\ Printed("moved") # {}
    /\ out[1].name \in DOMAIN top

---------------------------------------------------------------------------
(* C9 *)

MovedLines == SelectSeq(out, LAMBDA l : l.kind = "moved")

PreviewLines == SelectSeq(prev.previews, LAMBDA l : l.kind = "preview")

\* C9: when a dry run is followed by a live run from the same state which
\* visits the files in the same order and in which every move succeeds,
\* each file's destination in the live run (category folder and final
\* name) is the one the dry run printed for it.
C9_PreviewFidelity ==
    ( /\ Finished /\ ~dry_run /\ NoError
      /\ prev.called /\ prev.dry_run
      /\ Len(MovedLines) = Len(PreviewLines)
      /\ \A i \in 1..Len(MovedLines) : MovedLines[i].name = PreviewLines[i].name )
    => \A i \in 1..Len(MovedLines) :
          /\ MovedLines[i].category = PreviewLines[i].category
          /\ MovedLines[i].target = PreviewLines[i].target

---------------------------------------------------------------------------
(* C10 *)

\* C10: the counter of the collision loop starts at 1 and each turn of
\* the loop, taken only while target_path exists, adds 1 to it; a call on
\* a valid directory reaches its summary, and has then run the loop body
\* exactly once for each child listed (the children at the start of the
\* call and, in a live call, the category folders).
C10_Termination ==
    /\ [][/\ (pc = "loop" /\ pc' = "resolve") => counter' = 1
          /\ (pc = "resolve" /\ pc' = "resolve") =>
                /\ ExistsIn(category, target_path)
                /\ counter' = counter + 1]_vars
    /\ [](Running => <>Finished)
    /\ [](Finished =>
             /\ DOMAIN handled =
                   DOMAIN start.top \cup (IF dry_run THEN {} ELSE CategoryNames)
             /\ \A n \in DOMAIN handled : handled[n] = 1)

C10_Witness ==
    /\ Finished
    /\ counter > 2
    /\ Cardinality(DOMAIN handled) > Len(CATEGORIES)

====
